---- MODULE Spec2Model ----
(***************************************************************************)
(* Monte Carlo portfolio simulations: the glue layer of src/main.py        *)
(* (create_portfolio, run_simulate, run_frontier) and the engine behind   *)
(* it (Portfolio, run_monte_carlo_simulation, build_efficient_frontier),   *)
(* which src/main.py imports from the package `src` and whose contracts   *)
(* are given in spec.md sections 3 to 5.                                   *)
(***************************************************************************)
EXTENDS Integers, Sequences, FiniteSets, TLC

VARIABLES
    \* create_portfolio
    cp_pc,          \* position inside create_portfolio
    securities,     \* argument `securities`
    weights_arg,    \* argument `weights` as the caller passed it (None or a list)
    weights,        \* local `weights` after the default of line 52-53
    portfolio,      \* local `portfolio` (None until constructed)
    calls,          \* the collaborator calls made so far, in order
    raised,         \* the exception that left create_portfolio, or NoError
    \* run_simulate / run_frontier
    rp_pc,          \* position inside run_simulate or run_frontier
    fn,             \* which of the two functions is running
    report_path,    \* argument `report_path`
    show_plots,     \* argument `show_plots` (run_simulate) / `show_plot` (run_frontier)
    out_dir,        \* local `out_dir`
    do_plots,       \* local `do_plots` / `do_plot`
    engine_args,    \* the arguments the engine was invoked with, or None
    results,        \* local `results`
    dirs,           \* the directories that exist
    files,          \* the files written
    rp_returned,    \* the value returned to the caller, or None
    rp_raised,      \* the exception that left the function, or NoError
    \* run_frontier -> build_efficient_frontier
    fr_pc,          \* position inside the frontier search
    n_securities,   \* len(portfolio.securities)
    min_weight,     \* argument `min_weight` of run_frontier
    max_weight,     \* argument `max_weight` of run_frontier
    weight_increment, \* argument `weight_increment` of run_frontier
    num_sims,       \* argument `num_sims` of run_frontier
    top_n,          \* argument `top_n` of run_frontier
    fr_seed,        \* the random state the engine runs the candidates with
    fr_kwargs,      \* the keyword arguments build_efficient_frontier received
    candidates,     \* the weight combinations enumerated, in order
    evaluated,      \* the FrontierCandidates produced so far, in order
    tables,         \* the three ranked tables, or None
    fr_raised,      \* the exception that left the search, or NoError
    \* run_simulate -> run_monte_carlo_simulation
    simulations,    \* argument `simulations` of run_simulate
    years,          \* argument `years` of run_simulate
    frequency,      \* argument `frequency` of run_simulate
    rebalancing,    \* argument `rebalancing` of run_simulate
    target_weights, \* portfolio.target_weights, over Unit
    initial_value,  \* portfolio.portfolio_value
    sim_kwargs,     \* the keyword arguments run_monte_carlo_simulation received
    \* the portfolio path evolver, on one simulation path
    ev_pc,          \* position inside the evolver
    period,         \* the periods applied so far
    returns,        \* the per-security returns of the periods applied so far
    holdings,       \* the per-security holding values
    value_path,     \* the total portfolio value per period, from the initial value
    \* the risk metrics reducer
    mt_pc,          \* position inside the reducer
    cagrs,          \* the CAGR of each simulated path, in path order, over RateUnit
    rf,             \* portfolio.rf, over RateUnit
    conf_level,     \* portfolio.conf_level, in percent
    metrics,        \* the reducer's result, or None
    sim_returned,   \* what run_simulate returned, or None
    \* the S simulation paths of one run, computed by concurrent workers
    sm_pc,          \* position inside the run
    sm_seed,        \* the seed of the run's path generator
    path_values,    \* path -> its value path, <<>> until a worker has computed it
    completion,     \* the paths in the order the workers completed them
    \* the Portfolio's cached covariance matrix
    generation,     \* the generation of the portfolio's securities and target weights
    heap,           \* the matrix objects allocated so far: generation and cells
    cache,          \* the cached matrix object (an index of heap), 0 for none
    readers         \* reader -> its position, its matrix object and what it has read

cpVars == <<cp_pc, securities, weights_arg, weights, portfolio, calls, raised>>

rpVars == <<rp_pc, fn, report_path, show_plots, out_dir, do_plots, engine_args,
            results, dirs, files, rp_returned, rp_raised>>

frVars == <<fr_pc, n_securities, min_weight, max_weight, weight_increment, num_sims,
            top_n, fr_seed, fr_kwargs, candidates, evaluated, tables, fr_raised>>

argVars == <<simulations, years, frequency, rebalancing, target_weights,
             initial_value, sim_kwargs>>

evVars == <<ev_pc, period, returns, holdings, value_path>>

mtVars == <<mt_pc, cagrs, rf, conf_level, metrics, sim_returned>>

smVars == <<sm_pc, sm_seed, path_values, completion>>

ccVars == <<generation, heap, cache, readers>>

vars == <<cpVars, rpVars, frVars, argVars, evVars, mtVars, smVars, ccVars>>

cpOthers == <<rpVars, frVars, argVars, evVars, mtVars, smVars, ccVars>>

rpOthers == <<cpVars, frVars, argVars, evVars, mtVars, smVars, ccVars>>

frOthers == <<cpVars, rpVars, argVars, evVars, mtVars, smVars, ccVars>>

evOthers == <<cpVars, rpVars, frVars, mtVars, smVars, ccVars>>

mtOthers == <<cpVars, rpVars, frVars, argVars, evVars, smVars, ccVars>>

smOthers == <<cpVars, rpVars, frVars, evVars, ccVars>>

ccOthers == <<cpVars, rpVars, frVars, argVars, evVars, mtVars, smVars>>

\* Python's None, for a variable that otherwise holds an object or a list; a list
\* held by such a variable is wrapped as Some(list).
None == [none |-> TRUE]

Some(v) == [val |-> v]

\* No exception has left the function.
NoError == "NoError"

(***************************************************************************)
(* Helpers                                                                 *)
(***************************************************************************)
RECURSIVE SeqSum(_)
SeqSum(s) == IF s = <<>> THEN 0 ELSE Head(s) + SeqSum(Tail(s))

SeqsUpTo(S, n) == UNION {[1..k -> S] : k \in 0..n}

IsPrefix(s, t) == Len(s) <= Len(t) /\ \A i \in 1..Len(s) : s[i] = t[i]

(***************************************************************************)
(* The state of a part of the program that is not running                  *)
(***************************************************************************)
CreateIdle ==
    /\ cp_pc = "idle"
    /\ securities = <<>>
    /\ weights_arg = None
    /\ weights = None
    /\ portfolio = None
    /\ calls = <<>>
    /\ raised = NoError

ReportIdle ==
    /\ rp_pc = "idle"
    /\ fn = "none"
    /\ report_path = None
    /\ show_plots = FALSE
    /\ out_dir = None
    /\ do_plots = FALSE
    /\ engine_args = None
    /\ results = None
    /\ dirs = {}
    /\ files = {}
    /\ rp_returned = None
    /\ rp_raised = NoError

FrontierIdle ==
    /\ fr_pc = "idle"
    /\ n_securities = 0
    /\ min_weight = 0
    /\ max_weight = 0
    /\ weight_increment = 0
    /\ num_sims = 0
    /\ top_n = 0
    /\ fr_seed = 0
    /\ fr_kwargs = None
    /\ candidates = <<>>
    /\ evaluated = <<>>
    /\ tables = None
    /\ fr_raised = NoError

ArgsIdle ==
    /\ simulations = 0
    /\ years = 0
    /\ frequency = "none"
    /\ rebalancing = FALSE
    /\ target_weights = <<>>
    /\ initial_value = 0
    /\ sim_kwargs = None

EvolveIdle ==
    /\ ev_pc = "idle"
    /\ period = 0
    /\ returns = <<>>
    /\ holdings = <<>>
    /\ value_path = <<>>

MetricsIdle ==
    /\ mt_pc = "idle"
    /\ cagrs = <<>>
    /\ rf = 0
    /\ conf_level = 0
    /\ metrics = None
    /\ sim_returned = None

SimulateIdle ==
    /\ sm_pc = "idle"
    /\ sm_seed = 0
    /\ path_values = <<>>
    /\ completion = <<>>

CacheIdle ==
    /\ generation = 0
    /\ heap = <<>>
    /\ cache = 0
    /\ readers = <<>>

(***************************************************************************)
(* create_portfolio                                                        *)
(***************************************************************************)
\* Most securities a caller passes.
MaxSecurities == 3

\* A weight of 1.0, in the model's units: weights are integers over Unit, so
\* that 1 / len(securities) is exact for every len up to 4.
Unit == 12

\* |sum - 1| <= 1e-9, in units of 1/Unit.
WeightTolerance == 0

WeightValues == {0 - (Unit \div 4), 0, Unit \div 4, Unit \div 2, Unit}

SecurityLists == {[i \in 1..n |-> i] : n \in 0..MaxSecurities}

\* weights = [1 / len(securities)] * len(securities)
EqualWeightsSkewed(secs) == [i \in 1..Len(secs) |-> Unit \div (Len(secs) + 1)]

EqualWeights(secs) == [i \in 1..Len(secs) |-> Unit \div Len(secs)]

\* Portfolio's check of its target weights (spec.md 3 and 7).
WeightsMalformed(secs, w) ==
    \/ Len(w) # Len(secs)
    \/ \E i \in 1..Len(w) : w[i] < 0
    \/ SeqSum(w) - Unit > WeightTolerance
    \/ Unit - SeqSum(w) > WeightTolerance

\* Renormalisation to sum exactly 1 (spec.md 3).
Renormalize(w) == [i \in 1..Len(w) |-> (w[i] * Unit) \div SeqSum(w)]

\* Portfolio(name, securities, target_weights, ...): the object, or the error.
PortfolioInit(secs, w) ==
    IF WeightsMalformed(secs, w)
    THEN [error |-> "InvalidWeightsError"]
    ELSE [error |-> NoError,
          securities |-> secs,
          target_weights |-> Renormalize(w),
          prices |-> FALSE,
          covariance |-> "unset"]

CreateInit ==
    /\ cp_pc = "start"
    /\ securities \in SecurityLists
    /\ weights_arg \in {None} \cup {Some(w) : w \in SeqsUpTo(WeightValues, MaxSecurities)}
    /\ weights = weights_arg
    /\ portfolio = None
    /\ calls = <<>>
    /\ raised = NoError

\* lines 48-49 without the guard: an empty list falls through.
CP_CheckNoGuard ==
    /\ cp_pc = "start"
    /\ weights' = IF weights_arg = None THEN Some(EqualWeights(securities)) ELSE weights_arg
    /\ cp_pc' = "construct"
    /\ UNCHANGED <<securities, weights_arg, portfolio, calls, raised, cpOthers>>

\* lines 48-53
CP_Check ==
    /\ cp_pc = "start"
    /\ IF securities = <<>>
       THEN /\ raised' = "ValueError"
            /\ cp_pc' = "raised"
            /\ UNCHANGED weights
       ELSE /\ weights' = IF weights_arg = None
                          THEN Some(EqualWeights(securities))
                          ELSE weights_arg
            /\ cp_pc' = "construct"
            /\ UNCHANGED raised
    /\ UNCHANGED <<securities, weights_arg, portfolio, calls, cpOthers>>

\* lines 58-65
CP_Construct ==
    /\ cp_pc = "construct"
    /\ calls' = Append(calls, "Portfolio")
    /\ LET p == PortfolioInit(securities, weights.val)
       IN  IF p.error # NoError
           THEN /\ raised' = p.error
                /\ cp_pc' = "raised"
                /\ UNCHANGED portfolio
           ELSE /\ portfolio' = p
                /\ cp_pc' = "prices"
                /\ UNCHANGED raised
    /\ UNCHANGED <<securities, weights_arg, weights, cpOthers>>

\* lines 70-74: the fetch succeeds, or its error propagates.
CP_GetPrices ==
    /\ cp_pc = "prices"
    /\ calls' = Append(calls, "get_security_prices")
    /\ \/ /\ portfolio' = [portfolio EXCEPT !.prices = TRUE]
          /\ cp_pc' = "covariance"
          /\ UNCHANGED raised
       \/ /\ raised' = "FetchError"
          /\ cp_pc' = "raised"
          /\ UNCHANGED portfolio
    /\ UNCHANGED <<securities, weights_arg, weights, cpOthers>>

\* line 79: the estimate succeeds, or InsufficientDataError propagates.
CP_CalcCovariance ==
    /\ cp_pc = "covariance"
    /\ calls' = Append(calls, "calc_covariance")
    /\ \/ /\ portfolio' = [portfolio EXCEPT !.covariance = "computed"]
          /\ cp_pc' = "return"
          /\ UNCHANGED raised
       \/ /\ raised' = "InsufficientDataError"
          /\ cp_pc' = "raised"
          /\ UNCHANGED portfolio
    /\ UNCHANGED <<securities, weights_arg, weights, cpOthers>>

\* line 81
CP_Return ==
    /\ cp_pc = "return"
    /\ cp_pc' = "returned"
    /\ UNCHANGED <<securities, weights_arg, weights, portfolio, calls, raised, cpOthers>>

CreateNext ==
    \/ CP_Check
    \/ CP_Construct
    \/ CP_GetPrices
    \/ CP_CalcCovariance
    \/ CP_Return

InitCreate ==
    /\ CacheIdle
    /\ SimulateIdle
    /\ MetricsIdle
    /\ ReportIdle
    /\ FrontierIdle
    /\ ArgsIdle
    /\ EvolveIdle
    /\ CreateInit

SpecCreate == InitCreate /\ [][CreateNext]_vars

FullCalls == <<"Portfolio", "get_security_prices", "calc_covariance">>

C8_Rejectable(secs, w) ==
    \/ Len(w) # Len(secs)
    \/ \E i \in 1..Len(w) : w[i] < 0
    \/ SeqSum(w) # Unit

C9_CreateOrder ==
    /\ IsPrefix(calls, FullCalls)
    /\ (securities = <<>> /\ cp_pc # "start")
       => (raised = "ValueError" /\ cp_pc = "raised" /\ calls = <<>> /\ portfolio = None)
    /\ securities # <<>> => raised # "ValueError"
    /\ portfolio # None =>
          (portfolio.covariance = "computed" => portfolio.prices)
    /\ cp_pc = "returned" =>
          /\ securities # <<>>
          /\ raised = NoError
          /\ calls = FullCalls
          /\ portfolio # None
          /\ portfolio.prices
          /\ portfolio.covariance = "computed"
    /\ (cp_pc = "raised" /\ raised = "InsufficientDataError") => calls = FullCalls

\* C9's case: create_portfolio has returned after the three calls.
C9_Witness ==
    /\ cp_pc = "returned"
    /\ calls = FullCalls
    /\ weights_arg # None

(***************************************************************************)
(* run_simulate and run_frontier                                           *)
(***************************************************************************)
\* report_path: None, the empty string, or the name of a directory.
ReportPaths == {None, Some(""), Some("out")}

\* What the engine returns: None, an empty dict, or a dict of results.
EngineResults == {None, [size |-> 0], [size |-> 1, portfolio |-> "summary"]}

\* Python's truth value of report_path (line 114, line 179).
PathTruthy(rp) == rp # None /\ rp.val # ""

\* Python's truth value of results (line 131, line 198).
ResultTruthy(r) == r # None /\ r.size > 0

\* out_dir / "report.txt"
ReportFile(d) == <<d.val, "report.txt">>

ReportInit ==
    /\ rp_pc = "start"
    /\ fn \in {"run_simulate", "run_frontier"}
    /\ report_path \in ReportPaths
    /\ show_plots \in BOOLEAN
    /\ out_dir = None
    /\ do_plots = FALSE
    /\ engine_args = None
    /\ results = None
    /\ dirs \in SUBSET {"out"}
    /\ files = {}
    /\ rp_returned = None
    /\ rp_raised = NoError

\* run_simulate, lines 114-118
RS_Prepare ==
    /\ rp_pc = "start"
    /\ fn = "run_simulate"
    /\ out_dir' = IF PathTruthy(report_path) THEN report_path ELSE None
    /\ dirs' = IF out_dir' # None THEN dirs \cup {out_dir'.val} ELSE dirs
    /\ do_plots' = IF out_dir' = None THEN show_plots ELSE TRUE
    /\ rp_pc' = "engine"
    /\ UNCHANGED <<fn, report_path, show_plots, engine_args, results, files,
                   rp_returned, rp_raised, rpOthers>>

\* run_frontier, lines 179-181
RF_Prepare ==
    /\ rp_pc = "start"
    /\ fn = "run_frontier"
    /\ out_dir' = IF PathTruthy(report_path) THEN report_path ELSE None
    /\ do_plots' = IF out_dir' = None THEN show_plots ELSE TRUE
    /\ rp_pc' = "engine"
    /\ UNCHANGED <<fn, report_path, show_plots, engine_args, results, dirs, files,
                   rp_returned, rp_raised, rpOthers>>

\* The engine, called with show_plots=do_plots and output_dir=out_dir: it
\* returns its result or raises, and creates no directory (spec.md 4.3, 6).
EngineCall ==
    /\ engine_args' = [show_plots |-> do_plots, output_dir |-> out_dir]
    /\ \/ /\ results' \in EngineResults
          /\ rp_pc' = "report"
          /\ UNCHANGED rp_raised
       \/ /\ rp_raised' = "EngineError"
          /\ rp_pc' = "raised"
          /\ UNCHANGED results
    /\ UNCHANGED <<fn, report_path, show_plots, out_dir, do_plots, dirs, files,
                   rp_returned, rpOthers>>

\* run_simulate, lines 120-129
RS_Engine ==
    /\ rp_pc = "engine"
    /\ fn = "run_simulate"
    /\ EngineCall

\* run_frontier, lines 183-196
RF_Engine ==
    /\ rp_pc = "engine"
    /\ fn = "run_frontier"
    /\ EngineCall

\* open(report_file, "w") and f.write(...): FileNotFoundError when the
\* directory of the file does not exist.
WriteReport ==
    IF out_dir # None /\ ResultTruthy(results)
    THEN IF out_dir.val \in dirs
         THEN /\ files' = files \cup {ReportFile(out_dir)}
              /\ rp_pc' = "return"
              /\ UNCHANGED rp_raised
         ELSE /\ rp_raised' = "FileNotFoundError"
              /\ rp_pc' = "raised"
              /\ UNCHANGED files
    ELSE /\ rp_pc' = "return"
         /\ UNCHANGED <<files, rp_raised>>

\* run_simulate, lines 131-136
RS_Report ==
    /\ rp_pc = "report"
    /\ fn = "run_simulate"
    /\ WriteReport
    /\ UNCHANGED <<fn, report_path, show_plots, out_dir, do_plots, engine_args,
                   results, dirs, rp_returned, rpOthers>>

\* run_frontier, lines 198-216
RF_Report ==
    /\ rp_pc = "report"
    /\ fn = "run_frontier"
    /\ WriteReport
    /\ UNCHANGED <<fn, report_path, show_plots, out_dir, do_plots, engine_args,
                   results, dirs, rp_returned, rpOthers>>

\* line 138, line 218
RP_Return ==
    /\ rp_pc = "return"
    /\ rp_returned' = Some(results)
    /\ rp_pc' = "returned"
    /\ UNCHANGED <<fn, report_path, show_plots, out_dir, do_plots, engine_args,
                   results, dirs, files, rp_raised, rpOthers>>

ReportNext ==
    \/ RS_Prepare
    \/ RF_Prepare
    \/ RS_Engine
    \/ RF_Engine
    \/ RS_Report
    \/ RF_Report
    \/ RP_Return

InitReport ==
    /\ CacheIdle
    /\ SimulateIdle
    /\ MetricsIdle
    /\ CreateIdle
    /\ FrontierIdle
    /\ ArgsIdle
    /\ EvolveIdle
    /\ ReportInit

SpecReport == InitReport /\ [][ReportNext]_vars

\* C10: without report_path the engine gets the caller's flag and output_dir
\* None, no directory is created and no report.txt is written; with report_path
\* the engine gets plotting enabled and output_dir = report_path, and once the
\* engine has returned and the function has finished report.txt is in that
\* directory if and only if the result is non-empty; the engine's result is
\* returned unmodified whenever the engine returned one.
C10_ReportFrame ==
    /\ (report_path = None /\ engine_args # None) =>
          /\ engine_args.show_plots = show_plots
          /\ engine_args.output_dir = None
    /\ report_path = None => (files = {} /\ dirs \in SUBSET {"out"} /\ out_dir = None)
    /\ (report_path # None /\ engine_args # None) =>
          /\ engine_args.show_plots = TRUE
          /\ engine_args.output_dir = report_path
    /\ (report_path # None /\ rp_pc \in {"return", "returned", "raised"}
            /\ rp_raised # "EngineError") =>
          (ReportFile(report_path) \in files <=> ResultTruthy(results))
    /\ (rp_pc \in {"returned", "raised"} /\ rp_raised # "EngineError") =>
          rp_returned = Some(results)

(***************************************************************************)
(* run_frontier and the efficient frontier search (spec.md 4.5)            *)
(***************************************************************************)
\* Most securities in the portfolio searched.
MaxFrontierSecurities == 3

\* Largest top_n a caller asks for.
MaxTopN == 3

\* Largest random state of the engine.
MaxFrontierSeed == 2

\* The percentage points a combination sums to.
FullWeight == 100

MinWeights == {0, 20, 50}

MaxWeights == {50, 60, 100}

WeightIncrements == {20, 25, 30, 50}

NumSims == {1, 2}

MetricKinds == {"sharpe", "sortino", "cvar"}

\* The "undefined" marker of a ratio, and a ratio that has a value.
Undefined == [defined |-> FALSE]

Defined(v) == [defined |-> TRUE, value |-> v]

Min(a, b) == IF a <= b THEN a ELSE b

\* The concatenation of a sequence of sequences.
RECURSIVE Concat(_)
Concat(ss) == IF ss = <<>> THEN <<>> ELSE Head(ss) \o Concat(Tail(ss))

\* The multiples of `inc` up to 100 that lie in [lo, hi], ascending.
GridExclusive(lo, hi, inc) ==
    SelectSeq([k \in 1..((FullWeight \div inc) + 1) |-> (k - 1) * inc],
              LAMBDA v : lo <= v /\ v < hi)

Grid(lo, hi, inc) ==
    SelectSeq([k \in 1..((FullWeight \div inc) + 1) |-> (k - 1) * inc],
              LAMBDA v : lo <= v /\ v <= hi)

\* Every k-tuple over the grid, in lexicographic order.
RECURSIVE Tuples(_, _)
Tuples(grid, k) ==
    IF k = 0
    THEN << <<>> >>
    ELSE LET rest == Tuples(grid, k - 1)
             WithHead(v) == [i \in 1..Len(rest) |-> <<v>> \o rest[i]]
         IN  Concat([g \in 1..Len(grid) |-> WithHead(grid[g])])

\* The combinations that sum to exactly 100 percentage points.
Compositions(n, lo, hi, inc) ==
    SelectSeq(Tuples(Grid(lo, hi, inc), n), LAMBDA t : SeqSum(t) = FullWeight)

\* One ratio of the engine's run on a candidate: a function of the weights, the
\* number of paths and the random state, undefined for some runs.
EngineRatio(kind, w, sims, seed) ==
    LET k == CASE kind = "sharpe" -> 1 [] kind = "sortino" -> 2 [] OTHER -> 3
        h == ((w[1] \div 5) + 3 * (w[Len(w)] \div 10) + k * seed + k * Len(w) + sims) % 6
    IN  IF h = 0 THEN Undefined ELSE Defined(h - 3)

\* The FrontierCandidate of one engine run.
RunCandidate(w, sims, seed) ==
    [weights |-> w,
     sharpe |-> EngineRatio("sharpe", w, sims, seed),
     sortino |-> EngineRatio("sortino", w, sims, seed),
     cvar |-> EngineRatio("cvar", w, sims, seed)]

\* a ranks strictly before b: descending, undefined last.
RanksBeforeNaNFirst(a, b) ==
    \/ ~a.defined /\ b.defined
    \/ a.defined /\ b.defined /\ a.value > b.value

RanksBefore(a, b) ==
    \/ a.defined /\ ~b.defined
    \/ a.defined /\ b.defined /\ a.value > b.value

\* Stable insertion of c into a ranked sequence.
RECURSIVE InsertRanked(_, _, _)
InsertRanked(c, s, kind) ==
    IF s = <<>> THEN <<c>>
    ELSE IF RanksBefore(c[kind], Head(s)[kind])
         THEN <<c>> \o s
         ELSE <<Head(s)>> \o InsertRanked(c, Tail(s), kind)

RECURSIVE Ranked(_, _)
Ranked(cs, kind) ==
    IF cs = <<>> THEN <<>>
    ELSE InsertRanked(cs[Len(cs)], Ranked(SubSeq(cs, 1, Len(cs) - 1), kind), kind)

TopOf(cs, kind, k) == SubSeq(Ranked(cs, kind), 1, Min(k, Len(cs)))

FrontierInit ==
    /\ fr_pc = "call"
    /\ n_securities \in 1..MaxFrontierSecurities
    /\ min_weight \in MinWeights
    /\ max_weight \in MaxWeights
    /\ weight_increment \in WeightIncrements
    /\ num_sims \in NumSims
    /\ top_n \in 1..MaxTopN
    /\ fr_seed \in 0..MaxFrontierSeed
    /\ fr_kwargs = None
    /\ candidates = <<>>
    /\ evaluated = <<>>
    /\ tables = None
    /\ fr_raised = NoError

\* lines 183-196 with min_weight and max_weight exchanged.
FrontierKwargsSwapped ==
    [min_weight |-> max_weight,
     max_weight |-> min_weight,
     weight_increment |-> weight_increment,
     num_sims |-> num_sims,
     top_n |-> top_n]

\* lines 183-196 with weight_increment bound to max_weight.
FrontierKwargsIncrement ==
    [min_weight |-> min_weight,
     max_weight |-> max_weight,
     weight_increment |-> max_weight,
     num_sims |-> num_sims,
     top_n |-> top_n]

\* lines 183-196 with top_n bound to num_sims.
FrontierKwargsTopN ==
    [min_weight |-> min_weight,
     max_weight |-> max_weight,
     weight_increment |-> weight_increment,
     num_sims |-> num_sims,
     top_n |-> num_sims]

\* lines 183-196: the keyword arguments of build_efficient_frontier.
FrontierKwargs ==
    [min_weight |-> min_weight,
     max_weight |-> max_weight,
     weight_increment |-> weight_increment,
     num_sims |-> num_sims,
     top_n |-> top_n]

\* run_frontier calls build_efficient_frontier (line 183).
FR_Call ==
    /\ fr_pc = "call"
    /\ fr_kwargs' = FrontierKwargs
    /\ fr_pc' = "enumerate"
    /\ UNCHANGED <<n_securities, min_weight, max_weight, weight_increment, num_sims,
                   top_n, fr_seed, candidates, evaluated, tables, fr_raised, frOthers>>

\* The search enumerates the combinations, or fails when there is none.
FR_Enumerate ==
    /\ fr_pc = "enumerate"
    /\ LET cs == Compositions(n_securities, fr_kwargs.min_weight,
                              fr_kwargs.max_weight, fr_kwargs.weight_increment)
       IN  IF cs = <<>>
           THEN /\ fr_raised' = "EmptySearchSpaceError"
                /\ fr_pc' = "raised"
                /\ UNCHANGED candidates
           ELSE /\ candidates' = cs
                /\ fr_pc' = "evaluate"
                /\ UNCHANGED fr_raised
    /\ UNCHANGED <<n_securities, min_weight, max_weight, weight_increment, num_sims,
                   top_n, fr_seed, fr_kwargs, evaluated, tables, frOthers>>

\* The engine runs on the next combination.
FR_Evaluate ==
    /\ fr_pc = "evaluate"
    /\ Len(evaluated) < Len(candidates)
    /\ evaluated' = Append(evaluated,
                           RunCandidate(candidates[Len(evaluated) + 1],
                                        fr_kwargs.num_sims, fr_seed))
    /\ UNCHANGED <<fr_pc, n_securities, min_weight, max_weight, weight_increment,
                   num_sims, top_n, fr_seed, fr_kwargs, candidates, tables,
                   fr_raised, frOthers>>

\* All candidates are ranked by each ratio and the top_n of each returned.
FR_Rank ==
    /\ fr_pc = "evaluate"
    /\ Len(evaluated) = Len(candidates)
    /\ tables' = [top_portfolios_sharpe |-> TopOf(evaluated, "sharpe", fr_kwargs.top_n),
                  top_portfolios_sortino |-> TopOf(evaluated, "sortino", fr_kwargs.top_n),
                  top_portfolios_cvar |-> TopOf(evaluated, "cvar", fr_kwargs.top_n)]
    /\ fr_pc' = "returned"
    /\ UNCHANGED <<n_securities, min_weight, max_weight, weight_increment, num_sims,
                   top_n, fr_seed, fr_kwargs, candidates, evaluated, fr_raised,
                   frOthers>>

FrontierNext ==
    \/ FR_Call
    \/ FR_Enumerate
    \/ FR_Evaluate
    \/ FR_Rank

InitFrontier ==
    /\ CacheIdle
    /\ SimulateIdle
    /\ MetricsIdle
    /\ CreateIdle
    /\ ReportIdle
    /\ ArgsIdle
    /\ EvolveIdle
    /\ FrontierInit

SpecFrontier == InitFrontier /\ [][FrontierNext]_vars

\* The multiples of weight_increment among the percentage points 0..100.
C1_Multiples == {m \in 0..FullWeight : m % weight_increment = 0}

\* The n-tuples of multiples of weight_increment within [min_weight, max_weight]
\* that sum to exactly 100.
C1_ValidCombinations ==
    {t \in [1..n_securities -> C1_Multiples] :
        /\ \A i \in 1..n_securities : min_weight <= t[i] /\ t[i] <= max_weight
        /\ SeqSum(t) = FullWeight}

C1_EvaluatedWeights == {evaluated[i].weights : i \in 1..Len(evaluated)}

\* C1: the search evaluates exactly the n-tuples of multiples of
\* weight_increment within [min_weight, max_weight] that sum to 100: never one
\* outside that set, never one twice, and all of them once it has finished; for
\* n=2, min_weight=0, max_weight=100, weight_increment=50 these are the three
\* candidates (0,100), (50,50), (100,0).
C1_ExactEnumeration ==
    /\ \A i \in 1..Len(evaluated) : evaluated[i].weights \in C1_ValidCombinations
    /\ \A i, j \in 1..Len(evaluated) :
          i # j => evaluated[i].weights # evaluated[j].weights
    /\ fr_pc \in {"returned", "raised"} => C1_EvaluatedWeights = C1_ValidCombinations
    /\ (/\ fr_pc = "returned"
        /\ n_securities = 2
        /\ min_weight = 0
        /\ max_weight = 100
        /\ weight_increment = 50)
       => (/\ Len(evaluated) = 3
           /\ C1_EvaluatedWeights = {<<0, 100>>, <<50, 50>>, <<100, 0>>})

\* C1's case: the 2-security search of the example has finished.
C1_Witness ==
    /\ fr_pc = "returned"
    /\ n_securities = 2
    /\ min_weight = 0
    /\ max_weight = 100
    /\ weight_increment = 50
    /\ Len(evaluated) = 3

C5_Better(a, b) == a.defined /\ (~b.defined \/ a.value > b.value)

C5_TableOk(table, kind) ==
    /\ Len(table) = Min(top_n, Len(evaluated))
    /\ \A i \in 1..Len(table) : \E j \in 1..Len(evaluated) : table[i] = evaluated[j]
    /\ \A i, j \in 1..Len(table) : i # j => table[i].weights # table[j].weights
    /\ \A i, j \in 1..Len(table) : i < j => ~C5_Better(table[j][kind], table[i][kind])
    /\ \A i, j \in 1..Len(table) :
          (~table[i][kind].defined /\ table[j][kind].defined) => j < i
    /\ \A c \in 1..Len(evaluated) :
          (\A i \in 1..Len(table) : table[i] # evaluated[c])
          => \A i \in 1..Len(table) : ~C5_Better(evaluated[c][kind], table[i][kind])

\* C5: the search returns three tables, for Sharpe, Sortino and CVaR ratio; each
\* holds min(top_n, number of candidates) distinct candidates in descending
\* order of its ratio, no candidate left out is strictly better than one in the
\* table, and undefined ratios come after every defined one.
C5_RankedTables ==
    fr_pc = "returned" =>
       /\ tables # None
       /\ DOMAIN tables = {"top_portfolios_sharpe", "top_portfolios_sortino",
                           "top_portfolios_cvar"}
       /\ C5_TableOk(tables.top_portfolios_sharpe, "sharpe")
       /\ C5_TableOk(tables.top_portfolios_sortino, "sortino")
       /\ C5_TableOk(tables.top_portfolios_cvar, "cvar")

\* C5's case: more candidates than top_n, a table mixing defined and undefined
\* ratios, and a table whose order differs from another's.
C5_Witness ==
    /\ fr_pc = "returned"
    /\ Len(evaluated) > top_n
    /\ top_n >= 2
    /\ \E i, j \in 1..Len(tables.top_portfolios_cvar) :
          /\ tables.top_portfolios_cvar[i].cvar.defined
          /\ ~tables.top_portfolios_cvar[j].cvar.defined
    /\ tables.top_portfolios_sharpe # tables.top_portfolios_sortino

\* C7: the search fails with EmptySearchSpaceError exactly when no combination
\* satisfies the bounds, the increment and the sum; then nothing is simulated and
\* no table exists, and with at least one combination the error is not raised.
C7_EmptySearchSpace ==
    /\ fr_pc = "raised" =>
          /\ fr_raised = "EmptySearchSpaceError"
          /\ C1_ValidCombinations = {}
          /\ evaluated = <<>>
          /\ tables = None
    /\ fr_pc \in {"evaluate", "returned"} =>
          /\ fr_raised = NoError
          /\ C1_ValidCombinations # {}
    /\ fr_raised # NoError => fr_pc = "raised"

\* C7's case: an increment that cannot reach 100 has made the search fail.
C7_Witness ==
    /\ fr_pc = "raised"
    /\ fr_raised = "EmptySearchSpaceError"
    /\ weight_increment = 30
    /\ min_weight = 0
    /\ max_weight = 100

(***************************************************************************)
(* Exact arithmetic on values: a value is a fraction <<n, d>> in lowest     *)
(* terms, d > 0                                                            *)
(***************************************************************************)
Abs(x) == IF x < 0 THEN 0 - x ELSE x

RECURSIVE Gcd(_, _)
Gcd(a, b) == IF b = 0 THEN a ELSE Gcd(b, a % b)

Frac(n, d) ==
    LET g == Gcd(Abs(n), d)
    IN  IF n = 0 THEN <<0, 1>> ELSE <<n \div g, d \div g>>

FracAdd(x, y) ==
    LET l == (x[2] \div Gcd(x[2], y[2])) * y[2]
    IN  Frac(x[1] * (l \div x[2]) + y[1] * (l \div y[2]), l)

FracMul(x, y) ==
    LET a == Frac(x[1], y[2])
        b == Frac(y[1], x[2])
    IN  Frac(a[1] * b[1], a[2] * b[2])

RECURSIVE FracSum(_)
FracSum(xs) == IF xs = <<>> THEN <<0, 1>> ELSE FracAdd(Head(xs), FracSum(Tail(xs)))

(***************************************************************************)
(* run_simulate and the portfolio path evolver (spec.md 4.3)               *)
(***************************************************************************)
\* Longest simulated horizon, in years.
MaxYears == 2

\* One plus a period's return is a multiple of 1/ReturnUnit.
ReturnUnit == 2

\* SimulationRun: sampling frequency -> steps per year (spec.md 3).
StepsPerYear(f) ==
    CASE f = "daily" -> 252
      [] f = "monthly" -> 12
      [] f = "quarterly" -> 4
      [] f = "annual" -> 1

Frequencies == {"annual", "quarterly"}

\* The target weights of the portfolios simulated, over Unit.
TargetWeights ==
    {<<Unit>>,
     <<Unit \div 4, 3 * (Unit \div 4)>>,
     <<Unit \div 2, Unit \div 2>>,
     <<Unit \div 3, Unit \div 3, Unit \div 3>>}

InitialValues == {1, 3}

\* What one period can draw for n securities: one plus each security's return,
\* over ReturnUnit. Security k loses half while the others gain half.
PeriodReturns(n) ==
    {[i \in 1..n |-> IF i = k THEN ReturnUnit - 1 ELSE ReturnUnit + 1] : k \in 1..2}

\* The initial value distributed per target weights.
InitialHoldings(w, v) == [i \in 1..Len(w) |-> Frac(w[i] * v, Unit)]

\* A period's returns applied to the per-security holdings.
ApplyReturns(h, r) == [i \in 1..Len(h) |-> FracMul(h[i], Frac(r[i], ReturnUnit))]

\* Holdings reset to the initial allocation instead of the new total value.
RebalanceToInitial(h, w) == InitialHoldings(w, initial_value)

\* Holdings reset to the target weights against the new total value.
Rebalance(h, w) == [i \in 1..Len(h) |-> FracMul(Frac(w[i], Unit), FracSum(h))]

\* The period lands on a rebalancing boundary: once per simulated year.
OnBoundary(t, f) == t > 0 /\ t % StepsPerYear(f) = 0

ArgsInit ==
    /\ simulations \in {1}
    /\ years \in 1..MaxYears
    /\ frequency \in Frequencies
    /\ rebalancing \in BOOLEAN
    /\ target_weights \in TargetWeights
    /\ initial_value \in InitialValues
    /\ sim_kwargs = None

EvolveInit ==
    /\ ev_pc = "call"
    /\ period = 0
    /\ returns = <<>>
    /\ holdings = <<>>
    /\ value_path = <<>>

\* lines 120-129 without rebalancing=rebalancing: the engine's default applies.
SimulateKwargsNoRebalancing ==
    [simulations |-> simulations,
     years |-> years,
     frequency |-> frequency,
     rebalancing |-> FALSE]

\* lines 120-129: the keyword arguments of run_monte_carlo_simulation.
SimulateKwargs ==
    [simulations |-> simulations,
     years |-> years,
     frequency |-> frequency,
     rebalancing |-> rebalancing]

\* run_simulate calls run_monte_carlo_simulation (line 120); a path starts from
\* the initial value distributed per target weights.
EV_Call ==
    /\ ev_pc = "call"
    /\ sim_kwargs' = SimulateKwargs
    /\ holdings' = InitialHoldings(target_weights, initial_value)
    /\ value_path' = <<Frac(initial_value, 1)>>
    /\ ev_pc' = "apply"
    /\ UNCHANGED <<simulations, years, frequency, rebalancing, target_weights,
                   initial_value, period, returns, evOthers>>

\* One period: its returns are applied and the new total value is recorded.
EV_Apply ==
    /\ ev_pc = "apply"
    /\ period < sim_kwargs.years * StepsPerYear(sim_kwargs.frequency)
    /\ \E r \in PeriodReturns(Len(target_weights)) :
          /\ returns' = Append(returns, r)
          /\ holdings' = ApplyReturns(holdings, r)
    /\ period' = period + 1
    /\ value_path' = Append(value_path, FracSum(holdings'))
    /\ ev_pc' = IF sim_kwargs.rebalancing /\ OnBoundary(period', sim_kwargs.frequency)
                THEN "rebalance"
                ELSE "apply"
    /\ UNCHANGED <<argVars, evOthers>>

\* The period landed on a boundary: holdings are reset to the target weights.
EV_Rebalance ==
    /\ ev_pc = "rebalance"
    /\ holdings' = Rebalance(holdings, target_weights)
    /\ ev_pc' = "apply"
    /\ UNCHANGED <<argVars, period, returns, value_path, evOthers>>

\* The path is complete: T + 1 values.
EV_Finish ==
    /\ ev_pc = "apply"
    /\ period = sim_kwargs.years * StepsPerYear(sim_kwargs.frequency)
    /\ ev_pc' = "done"
    /\ UNCHANGED <<argVars, period, returns, holdings, value_path, evOthers>>

EvolveNext ==
    \/ EV_Call
    \/ EV_Apply
    \/ EV_Rebalance
    \/ EV_Finish

InitEvolve ==
    /\ CacheIdle
    /\ SimulateIdle
    /\ MetricsIdle
    /\ CreateIdle
    /\ ReportIdle
    /\ FrontierIdle
    /\ ArgsInit
    /\ EvolveInit

SpecEvolve == InitEvolve /\ [][EvolveNext]_vars

\* The product of security i's returns over the periods applied so far.
RECURSIVE C3_Compounded(_, _)
C3_Compounded(i, t) ==
    IF t = 0 THEN <<1, 1>>
    ELSE FracMul(C3_Compounded(i, t - 1), Frac(returns[t][i], ReturnUnit))

\* C3: with rebalancing enabled, right after every yearly boundary each holding
\* equals its target weight times the total value and the total value is the one
\* recorded before the reset; with rebalancing disabled the holdings are never
\* reset: each is its initial allocation compounded by its own returns.
C3_Rebalancing ==
    /\ (/\ rebalancing
        /\ ev_pc \in {"apply", "done"}
        /\ OnBoundary(period, frequency))
       => (/\ \A i \in 1..Len(holdings) :
                holdings[i] = FracMul(Frac(target_weights[i], Unit), FracSum(holdings))
           /\ FracSum(holdings) = value_path[Len(value_path)])
    /\ (~rebalancing /\ ev_pc \in {"apply", "done"})
       => \A i \in 1..Len(holdings) :
             holdings[i] = FracMul(Frac(target_weights[i] * initial_value, Unit),
                                   C3_Compounded(i, period))
    /\ ev_pc = "rebalance" => (rebalancing /\ OnBoundary(period, frequency))

\* C3's case: two yearly boundaries crossed with rebalancing, the second reset
\* having moved drifted holdings back to the target weights.
C3_Witness ==
    /\ rebalancing
    /\ ev_pc = "apply"
    /\ period = 2 * StepsPerYear(frequency)
    /\ frequency = "quarterly"
    /\ Len(target_weights) = 2
    /\ target_weights[1] # target_weights[2]
    /\ value_path[period + 1] # value_path[period]
    /\ holdings[1] = FracMul(Frac(target_weights[1], Unit), value_path[period + 1])

(***************************************************************************)
(* The risk metrics reducer (spec.md 4.4)                                  *)
(***************************************************************************)
\* Most simulated paths reduced.
MaxPaths == 3

\* A sum keeps this many magnitudes exactly; above, low bits are rounded away.
MantissaLimit == 16

\* The CAGRs a path can have, over RateUnit (tenths).
CagrValues == {0 - 3, 0 - 1, 0, 2, 17}

RiskFreeRates == {0, 1}

ConfLevels == {50, 90}

\* Floating-point rounding of an integer to the mantissa.
RECURSIVE RoundFloat(_)
RoundFloat(x) ==
    IF Abs(x) < MantissaLimit THEN x
    ELSE IF x < 0 THEN 0 - 2 * RoundFloat((0 - x) \div 2)
    ELSE 2 * RoundFloat(x \div 2)

FloatAdd(a, b) == RoundFloat(a + b)

\* The floating-point sum of xs, accumulated left to right.
RECURSIVE FloatSum(_)
FloatSum(xs) ==
    IF xs = <<>> THEN 0
    ELSE FloatAdd(FloatSum(SubSeq(xs, 1, Len(xs) - 1)), xs[Len(xs)])

\* x / y in IEEE arithmetic: a zero divisor gives <<n, 0>> (Inf, or NaN for 0/0).
FracDiv(x, y) ==
    IF y[1] = 0 THEN <<IF x[1] > 0 THEN 1 ELSE IF x[1] < 0 THEN 0 - 1 ELSE 0, 0>>
    ELSE IF y[1] < 0 THEN FracMul(x, <<0 - y[2], 0 - y[1]>>)
    ELSE FracMul(x, <<y[2], y[1]>>)

FracNeg(x) == <<0 - x[1], x[2]>>

FracAbs(x) == <<Abs(x[1]), x[2]>>

\* xs in ascending order.
RECURSIVE InsertAscending(_, _)
InsertAscending(x, s) ==
    IF s = <<>> THEN <<x>>
    ELSE IF x <= Head(s) THEN <<x>> \o s
    ELSE <<Head(s)>> \o InsertAscending(x, Tail(s))

RECURSIVE SortAscending(_)
SortAscending(xs) ==
    IF xs = <<>> THEN <<>> ELSE InsertAscending(Head(xs), SortAscending(Tail(xs)))

\* The number of paths in the worst (1 - conf_level) fraction, at least one.
TailCount(n, conf) == ((100 - conf) * n + 99) \div 100

MeanCagr(xs) == Frac(FloatSum(xs), Len(xs))

\* The variance of the CAGRs: the mean squared distance from the mean.
Variance(xs) ==
    LET n == Len(xs)
        total == FloatSum(xs)
    IN  Frac(FloatSum([i \in 1..n |-> (n * xs[i] - total) * (n * xs[i] - total)]),
             n * n * n)

\* The mean squared shortfall of the CAGRs below the risk-free rate.
DownsideVariance(xs, r) ==
    LET below == SelectSeq(xs, LAMBDA x : x < r)
    IN  Frac(FloatSum([i \in 1..Len(below) |-> (r - below[i]) * (r - below[i])]),
             IF below = <<>> THEN 1 ELSE Len(below))

\* CVaR: the mean of the worst (1 - conf_level) fraction of the CAGRs.
Cvar(xs, conf) ==
    LET k == TailCount(Len(xs), conf)
    IN  Frac(FloatSum(SubSeq(SortAscending(xs), 1, k)), k)

\* A ratio excess / sqrt(squares), kept as the pair: undefined for squares = 0.
RootRatio(excess, squares) ==
    IF squares[1] = 0 THEN Undefined ELSE Defined(<<excess, squares>>)

\* mean CAGR / |CVaR|, guarded by CVaR > 0 only: CVaR = 0 divides by zero.
CvarRatioStrict(mean, cvar) ==
    IF cvar[1] > 0 THEN Undefined ELSE Defined(FracDiv(mean, FracAbs(cvar)))

\* mean CAGR / |CVaR|, undefined when CVaR >= 0.
CvarRatio(mean, cvar) ==
    IF cvar[1] >= 0 THEN Undefined ELSE Defined(FracDiv(mean, FracAbs(cvar)))

\* The reducer's result for an ensemble of CAGRs.
Reduce(xs, r, conf) ==
    LET mean == MeanCagr(xs)
        excess == FracAdd(mean, Frac(0 - r, 1))
        cvar == Cvar(xs, conf)
    IN  [cagr_mean |-> mean,
         variance |-> Variance(xs),
         sharpe |-> RootRatio(excess, Variance(xs)),
         sortino |-> RootRatio(excess, DownsideVariance(xs, r)),
         cvar |-> cvar,
         cvar_ratio |-> CvarRatio(mean, cvar)]

MetricsInit ==
    /\ mt_pc = "reduce"
    /\ cagrs \in UNION {[1..n -> CagrValues] : n \in 1..MaxPaths}
    /\ rf \in RiskFreeRates
    /\ conf_level \in ConfLevels
    /\ metrics = None
    /\ sim_returned = None

\* The engine reduces the ensemble (inside the call of lines 120-129).
MT_Reduce ==
    /\ mt_pc = "reduce"
    /\ metrics' = Reduce(cagrs, rf, conf_level)
    /\ mt_pc' = "return"
    /\ UNCHANGED <<cagrs, rf, conf_level, sim_returned, mtOthers>>

\* run_simulate returns the engine's results (line 138).
MT_Return ==
    /\ mt_pc = "return"
    /\ sim_returned' = metrics
    /\ mt_pc' = "returned"
    /\ UNCHANGED <<cagrs, rf, conf_level, metrics, mtOthers>>

MetricsNext ==
    \/ MT_Reduce
    \/ MT_Return

InitMetrics ==
    /\ CacheIdle
    /\ SimulateIdle
    /\ CreateIdle
    /\ ReportIdle
    /\ FrontierIdle
    /\ ArgsIdle
    /\ EvolveIdle
    /\ MetricsInit

SpecMetrics == InitMetrics /\ [][MetricsNext]_vars

\* C6: in the result run_simulate returns, the CVaR ratio is the undefined
\* marker whenever CVaR >= 0 and otherwise the finite number
\* mean CAGR / |CVaR|; it is a value of the result, never NaN or Inf.
C6_CvarRatioUndefined ==
    mt_pc = "returned" =>
       /\ sim_returned # None
       /\ sim_returned.cvar[2] > 0
       /\ sim_returned.cvar[1] >= 0 => sim_returned.cvar_ratio = Undefined
       /\ sim_returned.cvar[1] < 0 =>
             /\ sim_returned.cvar_ratio.defined
             /\ sim_returned.cvar_ratio.value[2] > 0
             /\ FracMul(sim_returned.cvar_ratio.value, FracAbs(sim_returned.cvar))
                  = sim_returned.cagr_mean

\* C6's case: an ensemble whose worst tail is exactly zero, reduced and returned.
C6_Witness ==
    /\ mt_pc = "returned"
    /\ sim_returned.cvar = <<0, 1>>
    /\ sim_returned.cagr_mean[1] > 0
    /\ sim_returned.cvar_ratio = Undefined

\* An ensemble with a negative tail has a numeric ratio.
C6_WitnessNumeric ==
    /\ mt_pc = "returned"
    /\ sim_returned.cvar[1] < 0
    /\ sim_returned.cvar_ratio.defined

(***************************************************************************)
(* One run of the engine: correlated path generator, evolver and reducer   *)
(* over S paths computed concurrently (spec.md 4.2-4.4, 5)                 *)
(***************************************************************************)
\* Most paths of a run.
MaxSimulations == 3

\* Longest horizon of a run, in years.
MaxRunYears == 1

\* Largest seed.
MaxSeed == 2

\* The target weights of the portfolios a whole run is checked on.
RunTargetWeights ==
    {<<Unit \div 4, 3 * (Unit \div 4)>>,
     <<Unit \div 3, Unit \div 3, Unit \div 3>>}

\* The generator's state after one draw.
NextState(x) == (5 * x + 3) % 16

\* The state path p's draws start from: the p-th stream a generator seeded with
\* `seed` hands out, whichever paths completed before (k of them).
PathStreamShared(seed, p, k) == (7 * seed + 3 * (k + 1)) % 16

PathStream(seed, p, k) == (7 * seed + 3 * p) % 16

\* The returns drawn in generator state x, for n securities.
DrawReturns(x, n) ==
    LET k == ((x \div 4) % 2) + 1
    IN  [i \in 1..n |-> IF i = k THEN ReturnUnit - 1 ELSE ReturnUnit + 1]

\* The total values of periods t..last, from the holdings h after period t - 1
\* and the generator state x before the draw of period t.
RECURSIVE EvolveFrom(_, _, _, _, _)
EvolveFrom(x, h, t, last, kw) ==
    IF t > last THEN <<>>
    ELSE LET applied == ApplyReturns(h, DrawReturns(x, Len(h)))
             after == IF kw.rebalancing /\ OnBoundary(t, kw.frequency)
                      THEN Rebalance(applied, target_weights)
                      ELSE applied
         IN  <<FracSum(applied)>> \o EvolveFrom(NextState(x), after, t + 1, last, kw)

\* The value path of a stream: T + 1 values, the initial value first.
EvolvePath(x0, kw) ==
    <<Frac(initial_value, 1)>>
      \o EvolveFrom(x0, InitialHoldings(target_weights, initial_value), 1,
                    kw.years * StepsPerYear(kw.frequency), kw)

\* CAGR = (final / initial)^(1 / years) - 1, rounded down to tenths.
Cagr(path, yrs) ==
    LET q == FracDiv(path[Len(path)], path[1])
        Power(b) == IF yrs = 1 THEN b ELSE IF yrs = 2 THEN b * b ELSE b * b * b
        ScaledRatio == IF yrs = 1 THEN (q[1] * 10) \div q[2]
                       ELSE IF yrs = 2 THEN (q[1] * 100) \div q[2]
                       ELSE (q[1] * 1000) \div q[2]
    IN  CHOOSE g \in (0 - 10)..60 :
           /\ Power(10 + g) <= ScaledRatio
           /\ Power(11 + g) > ScaledRatio

\* The order in which the reducer accumulates the paths: completion order.
ReductionOrderCompletion(order, n) == order

\* The order in which the reducer accumulates the paths: path order.
ReductionOrder(order, n) == [i \in 1..n |-> i]

SimulateInit ==
    /\ sm_pc = "call"
    /\ sm_seed \in 0..MaxSeed
    /\ path_values = <<>>
    /\ completion = <<>>
    /\ simulations \in 2..MaxSimulations
    /\ years \in 1..MaxRunYears
    /\ frequency \in Frequencies
    /\ rebalancing \in BOOLEAN
    /\ target_weights \in RunTargetWeights
    /\ initial_value = 1
    /\ sim_kwargs = None
    /\ mt_pc = "idle"
    /\ cagrs = <<>>
    /\ rf \in RiskFreeRates
    /\ conf_level \in ConfLevels
    /\ metrics = None
    /\ sim_returned = None

\* run_simulate calls run_monte_carlo_simulation (lines 120-129).
SM_Call ==
    /\ sm_pc = "call"
    /\ sim_kwargs' = SimulateKwargs
    /\ path_values' = [p \in 1..simulations |-> <<>>]
    /\ sm_pc' = "paths"
    /\ UNCHANGED <<simulations, years, frequency, rebalancing, target_weights,
                   initial_value, sm_seed, completion, mtVars, smOthers>>

\* A worker generates and evolves one path that is still to do.
SM_Path ==
    /\ sm_pc = "paths"
    /\ \E p \in 1..sim_kwargs.simulations :
          /\ path_values[p] = <<>>
          /\ path_values' =
                [path_values EXCEPT
                   ![p] = EvolvePath(PathStream(sm_seed, p, Len(completion)), sim_kwargs)]
          /\ completion' = Append(completion, p)
    /\ UNCHANGED <<argVars, sm_pc, sm_seed, mtVars, smOthers>>

\* All paths are done: the ensemble is reduced to the risk metrics.
SM_Reduce ==
    /\ sm_pc = "paths"
    /\ Len(completion) = sim_kwargs.simulations
    /\ LET order == ReductionOrder(completion, sim_kwargs.simulations)
       IN  cagrs' = [i \in 1..sim_kwargs.simulations |->
                        Cagr(path_values[order[i]], sim_kwargs.years)]
    /\ metrics' = Reduce(cagrs', rf, conf_level)
    /\ sm_pc' = "return"
    /\ UNCHANGED <<argVars, sm_seed, path_values, completion, mt_pc, rf, conf_level,
                   sim_returned, smOthers>>

\* run_simulate returns the engine's results (line 138).
SM_Return ==
    /\ sm_pc = "return"
    /\ sim_returned' = [value_paths |-> path_values, metrics |-> metrics]
    /\ sm_pc' = "returned"
    /\ UNCHANGED <<argVars, sm_seed, path_values, completion, mt_pc, cagrs, rf,
                   conf_level, metrics, smOthers>>

SimulateNext ==
    \/ SM_Call
    \/ SM_Path
    \/ SM_Reduce
    \/ SM_Return

InitSimulate ==
    /\ CacheIdle
    /\ CreateIdle
    /\ ReportIdle
    /\ FrontierIdle
    /\ EvolveIdle
    /\ SimulateInit

SpecSimulate == InitSimulate /\ [][SimulateNext]_vars

\* What a serial run with the same seed and inputs produces: path p is computed
\* after paths 1..p-1, and the ensemble is reduced in that order.
C4_SerialPaths ==
    [p \in 1..simulations |->
        EvolvePath(PathStream(sm_seed, p, p - 1),
                   [simulations |-> simulations, years |-> years,
                    frequency |-> frequency, rebalancing |-> rebalancing])]

C4_SerialMetrics(paths) ==
    Reduce([p \in 1..simulations |-> Cagr(paths[p], years)], rf, conf_level)

MaxGeneration == 2

\* Concurrent readers of the matrix.
NumReaders == 2

\* Cells of the matrix a reader reads one after the other.
MatrixCells == 2

\* Reads one reader performs.
MaxReads == 2

\* The covariance matrix estimated for generation g of the portfolio.
MatrixFor(g) == [i \in 1..MatrixCells |-> 10 * g + i]

\* Recomputation that rewrites the cached object in place when there is one.
InstallInPlace(h, c, g) ==
    IF c = 0
    THEN [heap |-> Append(h, [gen |-> g, cells |-> MatrixFor(g)]), cache |-> Len(h) + 1]
    ELSE [heap |-> [h EXCEPT ![c] = [gen |-> g, cells |-> MatrixFor(g)]], cache |-> c]

\* Recomputation: a fresh matrix object is built and installed as the cache;
\* the object cached before is left as it is.
Install(h, c, g) ==
    [heap |-> Append(h, [gen |-> g, cells |-> MatrixFor(g)]), cache |-> Len(h) + 1]

\* The cache holds no matrix, or one of an older generation.
Stale == cache = 0 \/ heap[cache].gen # generation

CacheInit ==
    /\ generation = 1
    /\ heap = <<>>
    /\ cache = 0
    /\ readers = [r \in 1..NumReaders |->
                    [pc |-> "created", ref |-> 0, gen |-> 0, seen |-> <<>>, reads |-> 0]]

\* create_portfolio, line 79: portfolio.calc_covariance() writes the matrix
\* before the portfolio is returned to any reader.
CC_CalcCovariance ==
    /\ cache = 0
    /\ heap = <<>>
    /\ LET new == Install(heap, cache, generation)
       IN  /\ heap' = new.heap
           /\ cache' = new.cache
    /\ readers' = [r \in 1..NumReaders |-> [readers[r] EXCEPT !.pc = "idle"]]
    /\ UNCHANGED <<generation, ccOthers>>

\* The securities or the target weights change: the cached matrix is stale.
CC_Change ==
    /\ cache # 0
    /\ generation < MaxGeneration
    /\ generation' = generation + 1
    /\ UNCHANGED <<heap, cache, readers, ccOthers>>

\* A reader asks for the matrix: a stale cache is recomputed first; the reader
\* holds the cached object from here on.
CC_ReadBegin(r) ==
    /\ readers[r].pc = "idle"
    /\ readers[r].reads < MaxReads
    /\ LET new == IF Stale
                  THEN Install(heap, cache, generation)
                  ELSE [heap |-> heap, cache |-> cache]
       IN  /\ heap' = new.heap
           /\ cache' = new.cache
           /\ readers' = [readers EXCEPT ![r] =
                             [pc |-> "reading", ref |-> new.cache, gen |-> generation,
                              seen |-> <<>>, reads |-> @.reads + 1]]
    /\ UNCHANGED <<generation, ccOthers>>

\* The reader reads the next cell of the object it holds.
CC_ReadCell(r) ==
    /\ readers[r].pc = "reading"
    /\ Len(readers[r].seen) < MatrixCells
    /\ readers' = [readers EXCEPT ![r].seen =
                      Append(@, heap[readers[r].ref].cells[Len(@) + 1])]
    /\ UNCHANGED <<generation, heap, cache, ccOthers>>

\* The reader has read the whole matrix.
CC_ReadEnd(r) ==
    /\ readers[r].pc = "reading"
    /\ Len(readers[r].seen) = MatrixCells
    /\ readers' = [readers EXCEPT ![r].pc = "idle"]
    /\ UNCHANGED <<generation, heap, cache, ccOthers>>

CC_Begin == \E r \in 1..NumReaders : CC_ReadBegin(r)

CC_Cell == \E r \in 1..NumReaders : CC_ReadCell(r)

CC_End == \E r \in 1..NumReaders : CC_ReadEnd(r)

CacheNext ==
    \/ CC_CalcCovariance
    \/ CC_Change
    \/ CC_Begin
    \/ CC_Cell
    \/ CC_End

InitCache ==
    /\ CreateIdle
    /\ ReportIdle
    /\ FrontierIdle
    /\ ArgsIdle
    /\ EvolveIdle
    /\ MetricsIdle
    /\ SimulateIdle
    /\ CacheInit

SpecCache == InitCache /\ [][CacheNext]_vars

\* C2: under any interleaving of readers with changes of the securities or
\* weights, what a reader has read is a prefix of the one matrix computed for the
\* generation current when its read began, never a mix and never an older
\* generation's; and every matrix object, once written, keeps the matrix of its
\* own generation: recomputation installs a fresh object.
C2_CacheReadOnly ==
    /\ \A r \in DOMAIN readers :
          readers[r].pc \in {"reading", "idle"} =>
             /\ readers[r].seen =
                  SubSeq([i \in 1..MatrixCells |-> 10 * readers[r].gen + i],
                         1, Len(readers[r].seen))
             /\ readers[r].pc = "reading" => readers[r].ref \in 1..Len(heap)
    /\ \A o \in 1..Len(heap) :
          heap[o].cells = [i \in 1..MatrixCells |-> 10 * heap[o].gen + i]
    /\ \A o, q \in 1..Len(heap) : o < q => heap[o].gen < heap[q].gen
    /\ cache # 0 => heap[cache].gen <= generation

\* C2's case: a reader in the middle of the matrix of generation 1 while the
\* weights have changed and another reader already holds the fresh matrix.
C2_Witness ==
    /\ generation = 2
    /\ \E r, q \in DOMAIN readers :
          /\ readers[r].pc = "reading"
          /\ readers[r].gen = 1
          /\ Len(readers[r].seen) = 1
          /\ readers[q].pc = "reading"
          /\ readers[q].gen = 2
          /\ readers[q].ref # readers[r].ref

====
